---- MODULE Spec2Model ----
(***************************************************************************)
(* LassoNet visualizer: the step engine (gradient step, proximal step),   *)
(* the scheduler (advanceSimulation / resetSimulation of App.tsx), the     *)
(* summarization request (geminiService.ts, handleAiAnalysis) and the UI   *)
(* driver (interval effect of App.tsx, buttons of Controls.tsx).           *)
(*                                                                         *)
(* Numbers.  The program computes with IEEE doubles.  The model computes   *)
(* with decimal fixed-point numbers: an integer n stands for n / SCALE,    *)
(* and every product is rounded to the nearest unit (Mul).  Sums,          *)
(* differences, comparisons, Math.abs and Math.sign are exact.             *)
(***************************************************************************)
EXTENDS Integers, Sequences, FiniteSets, TLC

\* ------------------------------------------------------------------------
\* Fixed-point arithmetic
\* ------------------------------------------------------------------------

\* One unit is 1/SCALE (four decimal places).
SCALE == 10^4

\* n/d rounded to the nearest integer (d > 0).
Round(n, d) == (2 * n + d) \div (2 * d)

\* The product of two fixed-point numbers.
Mul(a, b) == Round(a * b, SCALE)

\* The fixed-point number p/q, for a decimal literal of the source.
Dec(p, q) == Round(p * SCALE, q)

\* Math.abs
Abs(x) == IF x < 0 THEN -x ELSE x

\* Math.sign, as a fixed-point number
Sign(x) == IF x > 0 THEN SCALE ELSE IF x < 0 THEN -SCALE ELSE 0

\* Number.prototype.toFixed(2) followed by parseFloat: the nearest multiple
\* of 0.01.
ToFixed2(x) == Round(x, SCALE \div 100) * (SCALE \div 100)

\* ------------------------------------------------------------------------
\* constants.ts
\* ------------------------------------------------------------------------

NUM_FEATURES == 3

HIDDEN_SIZE == 5

M_CONSTANT == Dec(2, 1)

MAX_LAMBDA == Dec(2, 1)

LAMBDA_STEP == Dec(2, 10)

EPOCHS_PER_LAMBDA == 5

LEARNING_RATE == Dec(1, 10)

\* The literal 5 of App.tsx, `if (next.epoch >= 5)`: the pretraining length.
PRETRAIN_EPOCHS == 5

Hidden == 1 .. HIDDEN_SIZE

\* ------------------------------------------------------------------------
\* services/simulationLogic.ts: the step engine App.tsx imports
\* ------------------------------------------------------------------------

\* Array.from({length: NUM_FEATURES}, (_, i) => ...), i = 0 .. NUM_FEATURES-1
initializeWeights ==
  [ n \in 1 .. NUM_FEATURES |->
      LET i == n - 1
          startTheta == Dec(1, 1) - Mul(i * SCALE, Dec(4, 10))
      IN  [ id        |-> i + 1,
            theta     |-> startTheta,
            w         |-> [k \in Hidden |-> Mul(startTheta, Dec(5, 10))],
            isActive  |-> TRUE,
            isClamped |-> FALSE,
            prevTheta |-> startTheta ] ]

softThreshold(x, lam) ==
  IF x > lam THEN x - lam
  ELSE IF x < -lam THEN x + lam
  ELSE 0

\* The gradient step's target for a feature id.
targetTheta(id) ==
  IF id = 1 THEN Dec(2, 1)
  ELSE IF id = 2 THEN Dec(8, 10)
  ELSE -Dec(2, 10)

\* Faulty variant of gradientFeature: inactive features are updated too.
gradientFeature_noSkip(f) ==
  LET tT == targetTheta(f.id)
      targetW == Mul(tT, Dec(5, 10))
      newTheta == f.theta - Mul(LEARNING_RATE, f.theta - tT)
      newW == [k \in Hidden |-> f.w[k] - Mul(LEARNING_RATE, f.w[k] - targetW)]
  IN  [f EXCEPT !.prevTheta = f.theta,
                !.theta = newTheta,
                !.w = newW,
                !.isClamped = FALSE]

\* Faulty variant of gradientFeature: isClamped is not reset.
gradientFeature_keepClamped(f) ==
  IF ~f.isActive THEN f
  ELSE
    LET tT == targetTheta(f.id)
        targetW == Mul(tT, Dec(5, 10))
        newTheta == f.theta - Mul(LEARNING_RATE, f.theta - tT)
        newW == [k \in Hidden |-> f.w[k] - Mul(LEARNING_RATE, f.w[k] - targetW)]
    IN  [f EXCEPT !.prevTheta = f.theta,
                  !.theta = newTheta,
                  !.w = newW]

\* The body of features.map(f => ...) in performGradientStep.
gradientFeature(f) ==
  IF ~f.isActive THEN f
  ELSE
    LET tT == targetTheta(f.id)
        targetW == Mul(tT, Dec(5, 10))
        newTheta == f.theta - Mul(LEARNING_RATE, f.theta - tT)
        newW == [k \in Hidden |-> f.w[k] - Mul(LEARNING_RATE, f.w[k] - targetW)]
    IN  [f EXCEPT !.prevTheta = f.theta,
                  !.theta = newTheta,
                  !.w = newW,
                  !.isClamped = FALSE]

performGradientStep(features) ==
  [n \in DOMAIN features |-> gradientFeature(features[n])]

\* The pruning threshold of performProximalStep: 1e-3.
EPS_ACTIVE == Dec(1, 1000)

\* One hidden weight's projection onto [-limit, limit].
clampW(wVal, limit) ==
  IF Abs(wVal) > limit THEN Mul(Sign(wVal), limit) ELSE wVal

\* Faulty variant of proximalFeature: a feature that was inactive counts as
\* active again (|| !f.isActive).
proximalFeature_revive(f, lam) ==
  LET thresholded == softThreshold(f.theta, Mul(lam, LEARNING_RATE))
      isActive == Abs(thresholded) > EPS_ACTIVE \/ ~f.isActive
      newTheta == IF ~isActive THEN 0 ELSE thresholded
      limit == Mul(M_CONSTANT, Abs(newTheta))
      isClamped == \E k \in Hidden : Abs(f.w[k]) > limit
      newW == [k \in Hidden |-> clampW(f.w[k], limit)]
  IN  [f EXCEPT !.prevTheta = f.theta,
                !.theta = newTheta,
                !.w = newW,
                !.isActive = isActive,
                !.isClamped = isClamped]

\* Faulty variant of proximalFeature: the limit is taken from the theta
\* before thresholding.
proximalFeature_oldLimit(f, lam) ==
  LET thresholded == softThreshold(f.theta, Mul(lam, LEARNING_RATE))
      isActive == Abs(thresholded) > EPS_ACTIVE
      newTheta == IF ~isActive THEN 0 ELSE thresholded
      limit == Mul(M_CONSTANT, Abs(f.theta))
      isClamped == \E k \in Hidden : Abs(f.w[k]) > limit
      newW == [k \in Hidden |-> clampW(f.w[k], limit)]
  IN  [f EXCEPT !.prevTheta = f.theta,
                !.theta = newTheta,
                !.w = newW,
                !.isActive = isActive,
                !.isClamped = isClamped]

\* Faulty variant of proximalFeature: the limit is taken from the thresholded
\* theta before a pruned theta is forced to 0.
proximalFeature_limitBeforeZero(f, lam) ==
  LET thresholded == softThreshold(f.theta, Mul(lam, LEARNING_RATE))
      isActive == Abs(thresholded) > EPS_ACTIVE
      newTheta == IF ~isActive THEN 0 ELSE thresholded
      limit == Mul(M_CONSTANT, Abs(thresholded))
      isClamped == \E k \in Hidden : Abs(f.w[k]) > limit
      newW == [k \in Hidden |-> clampW(f.w[k], limit)]
  IN  [f EXCEPT !.prevTheta = f.theta,
                !.theta = newTheta,
                !.w = newW,
                !.isActive = isActive,
                !.isClamped = isClamped]

\* The body of features.map(f => ...) in performProximalStep.
proximalFeature(f, lam) ==
  LET thresholded == softThreshold(f.theta, Mul(lam, LEARNING_RATE))
      isActive == Abs(thresholded) > EPS_ACTIVE
      newTheta == IF ~isActive THEN 0 ELSE thresholded
      limit == Mul(M_CONSTANT, Abs(newTheta))
      isClamped == \E k \in Hidden : Abs(f.w[k]) > limit
      newW == [k \in Hidden |-> clampW(f.w[k], limit)]
  IN  [f EXCEPT !.prevTheta = f.theta,
                !.theta = newTheta,
                !.w = newW,
                !.isActive = isActive,
                !.isClamped = isClamped]

\* Faulty variant of performProximalStep: pruned features are removed from
\* the collection (filter) instead of being kept in place.
performProximalStep_dropPruned(features, lam) ==
  SelectSeq([n \in DOMAIN features |-> proximalFeature(features[n], lam)],
            LAMBDA f : f.isActive)

performProximalStep(features, lam) ==
  [n \in DOMAIN features |-> proximalFeature(features[n], lam)]

\* ------------------------------------------------------------------------
\* The second copy of the step engine (src/unnamed/part_000): the same two
\* steps over features that also carry prevW, gradTheta and gradW, each
\* returning {features, details}.  App.tsx does not import this copy.
\* ------------------------------------------------------------------------

initializeWeights_part000 ==
  [ n \in 1 .. NUM_FEATURES |->
      LET i == n - 1
          startTheta == Dec(1, 1) - Mul(i * SCALE, Dec(4, 10))
          startW == [k \in Hidden |-> Mul(startTheta, Dec(5, 10))]
      IN  [ id        |-> i + 1,
            theta     |-> startTheta,
            w         |-> startW,
            isActive  |-> TRUE,
            isClamped |-> FALSE,
            prevTheta |-> startTheta,
            prevW     |-> startW,
            gradTheta |-> 0,
            gradW     |-> [k \in Hidden |-> 0] ] ]

softThreshold_part000(x, lam) ==
  IF x > lam THEN x - lam
  ELSE IF x < -lam THEN x + lam
  ELSE 0

targetTheta_part000(id) ==
  IF id = 1 THEN Dec(18, 10)
  ELSE IF id = 2 THEN Dec(6, 10)
  ELSE Dec(5, 100)

gradientFeature_part000(f) ==
  IF ~f.isActive THEN f
  ELSE
    LET tT == targetTheta_part000(f.id)
        targetW == Mul(tT, Dec(5, 10))
        gradTheta == f.theta - tT
        gradW == [k \in Hidden |-> f.w[k] - targetW]
        newTheta == f.theta - Mul(LEARNING_RATE, gradTheta)
        newW == [k \in Hidden |-> f.w[k] - Mul(LEARNING_RATE, gradW[k])]
    IN  [f EXCEPT !.prevTheta = f.theta,
                  !.prevW = f.w,
                  !.gradTheta = gradTheta,
                  !.gradW = gradW,
                  !.theta = newTheta,
                  !.w = newW,
                  !.isClamped = FALSE]

\* The detail record before any feature is visited.
NoDetail(stepType) == [stepType |-> stepType, featureId |-> 1, bare |-> TRUE]

\* detailObj after the map callback has visited features[1..n]: the callback
\* overwrites it at a feature it updates when
\* f.id === 1 || (f.id === 2 && detailObj.featureId !== 1).
RECURSIVE gradientDetail_part000(_, _)
gradientDetail_part000(features, n) ==
  IF n = 0 THEN NoDetail("GRADIENT")
  ELSE
    LET before == gradientDetail_part000(features, n - 1)
        f == features[n]
        g == gradientFeature_part000(f)
    IN  IF f.isActive /\ (f.id = 1 \/ (f.id = 2 /\ before.featureId # 1))
        THEN [ stepType     |-> "GRADIENT",
               featureId    |-> f.id,
               bare         |-> FALSE,
               oldVal       |-> f.theta,
               grad         |-> g.gradTheta,
               learningRate |-> LEARNING_RATE,
               newVal       |-> g.theta ]
        ELSE before

performGradientStep_part000(features) ==
  [ features |-> [n \in DOMAIN features |-> gradientFeature_part000(features[n])],
    details  |-> gradientDetail_part000(features, Len(features)) ]

\* The pruning threshold of this copy: 1e-4.
EPS_ACTIVE_part000 == Dec(1, 10000)

clampW_part000(wVal, limit) ==
  IF Abs(wVal) > limit THEN Mul(Sign(wVal), limit) ELSE wVal

proximalFeature_part000(f, lam) ==
  LET threshold == Mul(lam, LEARNING_RATE)
      thresholded == softThreshold_part000(f.theta, threshold)
      isActive == Abs(thresholded) > EPS_ACTIVE_part000
      newTheta == IF ~isActive THEN 0 ELSE thresholded
      limit == Mul(M_CONSTANT, Abs(newTheta))
      isClamped == \E k \in Hidden : Abs(f.w[k]) > limit
      newW == [k \in Hidden |-> clampW_part000(f.w[k], limit)]
  IN  [f EXCEPT !.prevTheta = f.theta,
                !.prevW = f.w,
                !.theta = newTheta,
                !.w = newW,
                !.isActive = isActive,
                !.isClamped = isClamped,
                !.gradTheta = 0,
                !.gradW = [k \in Hidden |-> 0]]

RECURSIVE proximalDetail_part000(_, _, _)
proximalDetail_part000(features, lam, n) ==
  IF n = 0 THEN NoDetail("PROXIMAL")
  ELSE
    LET before == proximalDetail_part000(features, lam, n - 1)
        f == features[n]
        g == proximalFeature_part000(f, lam)
    IN  IF f.id = 1 \/ (f.id = 2 /\ before.featureId # 1)
        THEN [ stepType         |-> "PROXIMAL",
               featureId        |-> f.id,
               bare             |-> FALSE,
               inputTheta       |-> f.theta,
               lambda           |-> Mul(lam, LEARNING_RATE),
               thresholdedTheta |-> g.theta,
               inputW           |-> f.w[1],
               limit            |-> Mul(M_CONSTANT, Abs(g.theta)),
               clampedW         |-> g.w[1] ]
        ELSE before

performProximalStep_part000(features, lam) ==
  [ features |-> [n \in DOMAIN features |-> proximalFeature_part000(features[n], lam)],
    details  |-> proximalDetail_part000(features, lam, Len(features)) ]

\* ------------------------------------------------------------------------
\* App.tsx: the scheduler
\* ------------------------------------------------------------------------

VARIABLES
  state,        \* useState<SimulationState>: phase, step, lambda, epoch,
                \* features, logs, detailedLog
  isPlaying,    \* useState(false)
  calls,        \* history: advance() calls since the last reset (in EngineSpec,
                \* engine calls made so far)
  lastCall,     \* history: the call made by the last action (step engine,
                \* resetSimulation, analyzeLassoNetState)
  proxLambdas,  \* history: the lambda of every proximal step run while the
                \* phase was PATH_LOOP, since the last reset
  aiAnalysis,   \* useState<string | null>(null): <<>> for null, <<s>> for s
  isAnalyzing,  \* useState(false)
  request,      \* the analyzeLassoNetState call handleAiAnalysis awaits:
                \* <<>> when none, else <<the state it was given>>
  requestStale, \* history: resetSimulation ran while that call was awaited
  pending,      \* advanceSimulation updaters queued by setState and not yet
                \* applied by a render
  timer,        \* whether an interval set by the interval effect is armed
  effectsPending \* a commit changed a dependency of the interval effect and
                \* the effect has not run yet

aiVars == <<aiAnalysis, isAnalyzing, request, requestStale>>

uiVars == <<pending, timer, effectsPending>>

vars == <<state, isPlaying, calls, lastCall, proxLambdas,
          aiAnalysis, isAnalyzing, request, requestStale,
          pending, timer, effectsPending>>

\* A log line: its text and the number formatted into it (0 when none).
LogLine(text, number) == <<text, number>>

INITIAL_STATE ==
  [ phase       |-> "INIT",
    step        |-> "GRADIENT",
    lambda      |-> 0,
    epoch       |-> 0,
    features    |-> <<>>,
    logs        |-> <<LogLine("Ready.", 0)>>,
    detailedLog |-> LogLine("Press 'Start' or 'Step' to begin", 0) ]

\* The state resetSimulation() sets.
ResetState ==
  [ INITIAL_STATE EXCEPT
      !.features = initializeWeights,
      !.logs = <<LogLine("Initialized 3 features with random weights.", 0)>>,
      !.detailedLog = LogLine("Initialization Phase: Weights are set.", 0) ]

\* features.filter(f => f.isActive).length
ActiveCount(features) ==
  Cardinality({n \in DOMAIN features : features[n].isActive})

\* Faulty variant of initToPretrain: the INIT branch does not return and
\* falls through to a gradient step.
initToPretrain_fallThrough(prev) ==
  [ prev EXCEPT
      !.phase = "PRETRAIN",
      !.features = performGradientStep(prev.features),
      !.step = "PROXIMAL",
      !.logs = Append(prev.logs, LogLine(">>> Starting Pretraining (Lambda = 0)", 0)),
      !.detailedLog = LogLine("Phase: Pretraining.", 0) ]

\* Faulty variant of initToPretrain: the log is replaced by the new entry
\* instead of being extended by it.
initToPretrain_replaceLog(prev) ==
  [ prev EXCEPT
      !.phase = "PRETRAIN",
      !.logs = <<LogLine(">>> Starting Pretraining (Lambda = 0)", 0)>>,
      !.detailedLog = LogLine("Phase: Pretraining.", 0) ]

\* Section 1 of the updater: INIT -> PRETRAIN.
initToPretrain(prev) ==
  [ prev EXCEPT
      !.phase = "PRETRAIN",
      !.logs = Append(prev.logs, LogLine(">>> Starting Pretraining (Lambda = 0)", 0)),
      !.detailedLog = LogLine("Phase: Pretraining.", 0) ]

\* stepLog of the updater.
stepLog(prev) ==
  IF prev.step = "GRADIENT"
  THEN LogLine("Step 1: Gradient Descent.", 0)
  ELSE LogLine("Step 2: Proximal Update", ToFixed2(prev.lambda))

\* Faulty variant of stepLogic: the proximal branch does not count the epoch.
stepLogic_noEpoch(prev) ==
  IF prev.step = "GRADIENT"
  THEN
    LET newFeatures == performGradientStep(prev.features)
    IN  [ prev EXCEPT
            !.features = newFeatures,
            !.step = "PROXIMAL",
            !.detailedLog = LogLine("Gradient Step: Feature 1 moved to",
                                    ToFixed2(newFeatures[1].theta)) ]
  ELSE
    LET newFeatures == performProximalStep(prev.features, prev.lambda)
    IN  [ prev EXCEPT
            !.features = newFeatures,
            !.step = "GRADIENT",
            !.detailedLog = LogLine("Proximal Step: features clamped",
                Cardinality({n \in DOMAIN newFeatures : newFeatures[n].isClamped})),
            !.logs = IF ActiveCount(newFeatures) < ActiveCount(prev.features)
                     THEN Append(prev.logs,
                                 LogLine("Feature pruned at", ToFixed2(prev.lambda)))
                     ELSE prev.logs ]

\* Faulty variant of stepLogic: the proximal step is given the lambda of the
\* next schedule value instead of the current one.
stepLogic_nextLambda(prev) ==
  IF prev.step = "GRADIENT"
  THEN
    LET newFeatures == performGradientStep(prev.features)
    IN  [ prev EXCEPT
            !.features = newFeatures,
            !.step = "PROXIMAL",
            !.detailedLog = LogLine("Gradient Step: Feature 1 moved to",
                                    ToFixed2(newFeatures[1].theta)) ]
  ELSE
    LET newFeatures == performProximalStep(prev.features, prev.lambda + LAMBDA_STEP)
    IN  [ prev EXCEPT
            !.features = newFeatures,
            !.step = "GRADIENT",
            !.epoch = prev.epoch + 1,
            !.detailedLog = LogLine("Proximal Step: features clamped",
                Cardinality({n \in DOMAIN newFeatures : newFeatures[n].isClamped})),
            !.logs = IF ActiveCount(newFeatures) < ActiveCount(prev.features)
                     THEN Append(prev.logs,
                                 LogLine("Feature pruned at", ToFixed2(prev.lambda)))
                     ELSE prev.logs ]

\* Section 2 of the updater: one step-engine call.
stepLogic(prev) ==
  IF prev.step = "GRADIENT"
  THEN
    LET newFeatures == performGradientStep(prev.features)
    IN  [ prev EXCEPT
            !.features = newFeatures,
            !.step = "PROXIMAL",
            !.detailedLog = LogLine("Gradient Step: Feature 1 moved to",
                                    ToFixed2(newFeatures[1].theta)) ]
  ELSE
    LET newFeatures == performProximalStep(prev.features, prev.lambda)
    IN  [ prev EXCEPT
            !.features = newFeatures,
            !.step = "GRADIENT",
            !.epoch = prev.epoch + 1,
            !.detailedLog = LogLine("Proximal Step: features clamped",
                Cardinality({n \in DOMAIN newFeatures : newFeatures[n].isClamped})),
            !.logs = IF ActiveCount(newFeatures) < ActiveCount(prev.features)
                     THEN Append(prev.logs,
                                 LogLine("Feature pruned at", ToFixed2(prev.lambda)))
                     ELSE prev.logs ]

\* Faulty variant of pretrainTransition: leaves PRETRAIN one epoch late
\* (> for >=).
pretrainTransition_late(next) ==
  IF next.epoch > PRETRAIN_EPOCHS
  THEN [ next EXCEPT
           !.phase = "PATH_LOOP",
           !.epoch = 0,
           !.lambda = LAMBDA_STEP,
           !.logs = Append(next.logs,
                           LogLine(">>> Entering Warm-start Path.", LAMBDA_STEP)) ]
  ELSE next

\* Section 3 of the updater, prev.phase === PRETRAIN.
pretrainTransition(next) ==
  IF next.epoch >= PRETRAIN_EPOCHS
  THEN [ next EXCEPT
           !.phase = "PATH_LOOP",
           !.epoch = 0,
           !.lambda = LAMBDA_STEP,
           !.logs = Append(next.logs,
                           LogLine(">>> Entering Warm-start Path.", LAMBDA_STEP)) ]
  ELSE next

\* Faulty variant of pathLoopTransition: finishes as soon as the new lambda
\* reaches MAX_LAMBDA (>= for >).
pathLoopTransition_early(prev, next) ==
  IF next.epoch >= EPOCHS_PER_LAMBDA
  THEN
    LET newLambda == ToFixed2(prev.lambda + LAMBDA_STEP)
    IN  IF newLambda >= MAX_LAMBDA
        THEN [ next EXCEPT
                 !.epoch = 0,
                 !.lambda = newLambda,
                 !.phase = "FINISHED",
                 !.logs = Append(next.logs, LogLine(">>> Training Completed", 0)),
                 !.detailedLog = LogLine("Final Model obtained.", 0) ]
        ELSE [ next EXCEPT
                 !.epoch = 0,
                 !.lambda = newLambda,
                 !.logs = Append(next.logs,
                                 LogLine("Increasing Penalty:", newLambda)) ]
  ELSE next

\* Faulty variant of pathLoopTransition: the finishing branch starts the
\* schedule over instead of finishing.
pathLoopTransition_restart(prev, next) ==
  IF next.epoch >= EPOCHS_PER_LAMBDA
  THEN
    LET newLambda == ToFixed2(prev.lambda + LAMBDA_STEP)
    IN  IF newLambda > MAX_LAMBDA
        THEN [ next EXCEPT
                 !.epoch = 0,
                 !.lambda = newLambda,
                 !.phase = "PRETRAIN",
                 !.logs = Append(next.logs, LogLine(">>> Training Completed", 0)),
                 !.detailedLog = LogLine("Final Model obtained.", 0) ]
        ELSE [ next EXCEPT
                 !.epoch = 0,
                 !.lambda = newLambda,
                 !.logs = Append(next.logs,
                                 LogLine("Increasing Penalty:", newLambda)) ]
  ELSE next

\* Section 3 of the updater, prev.phase === PATH_LOOP.
pathLoopTransition(prev, next) ==
  IF next.epoch >= EPOCHS_PER_LAMBDA
  THEN
    LET newLambda == ToFixed2(prev.lambda + LAMBDA_STEP)
    IN  IF newLambda > MAX_LAMBDA
        THEN [ next EXCEPT
                 !.epoch = 0,
                 !.lambda = newLambda,
                 !.phase = "FINISHED",
                 !.logs = Append(next.logs, LogLine(">>> Training Completed", 0)),
                 !.detailedLog = LogLine("Final Model obtained.", 0) ]
        ELSE [ next EXCEPT
                 !.epoch = 0,
                 !.lambda = newLambda,
                 !.logs = Append(next.logs,
                                 LogLine("Increasing Penalty:", newLambda)) ]
  ELSE next

\* Section 3 of the updater: phase transitions.
phaseTransitions(prev, next) ==
  IF prev.phase = "PRETRAIN" THEN pretrainTransition(next)
  ELSE IF prev.phase = "PATH_LOOP" THEN pathLoopTransition(prev, next)
  ELSE next

\* The updater advanceSimulation passes to setState: prev => next.
advanceSimulation(prev) ==
  IF prev.phase = "INIT"
  THEN initToPretrain(prev)
  ELSE [ phaseTransitions(prev, stepLogic(prev)) EXCEPT !.detailedLog = stepLog(prev) ]

\* Whether the updater calls setIsPlaying(false): the branch that finishes.
stopsPlaying(prev) ==
  /\ prev.phase = "PATH_LOOP"
  /\ advanceSimulation(prev).phase = "FINISHED"

\* The step-engine call the updater makes on prev.
NoCall == [fn |-> "none"]

engineCall(prev) ==
  IF prev.phase = "INIT" THEN NoCall
  ELSE IF prev.step = "GRADIENT"
  THEN [ fn     |-> "performGradientStep",
         input  |-> prev.features,
         output |-> performGradientStep(prev.features) ]
  ELSE [ fn     |-> "performProximalStep",
         input  |-> prev.features,
         lambda |-> prev.lambda,
         output |-> performProximalStep(prev.features, prev.lambda) ]

\* Advance calls explored after a reset.
MaxCalls == 120

\* The state once the mount effect has run resetSimulation().
Init ==
  /\ state = ResetState
  /\ isPlaying = FALSE
  /\ calls = 0
  /\ lastCall = NoCall
  /\ proxLambdas = <<>>
  /\ aiAnalysis = <<>>
  /\ isAnalyzing = FALSE
  /\ request = <<>>
  /\ requestStale = FALSE
  /\ pending = 0
  /\ timer = FALSE
  /\ effectsPending = FALSE

\* advance(): one call of advanceSimulation, by the timer or the step button.
Advance ==
  /\ calls < MaxCalls
  /\ state' = advanceSimulation(state)
  /\ isPlaying' = IF stopsPlaying(state) THEN FALSE ELSE isPlaying
  /\ calls' = calls + 1
  /\ lastCall' = engineCall(state)
  /\ proxLambdas' = IF state.phase = "PATH_LOOP" /\ state.step = "PROXIMAL"
                    THEN Append(proxLambdas, state.lambda)
                    ELSE proxLambdas
  /\ UNCHANGED <<aiVars, uiVars>>

\* The record of a resetSimulation() call: the phase and step flag it was
\* called in, and whether the driver was playing.
resetCall ==
  [ fn         |-> "resetSimulation",
    phase      |-> state.phase,
    step       |-> state.step,
    wasPlaying |-> isPlaying ]

\* Faulty variant of Reset: without setIsPlaying(false).
Reset_keepPlaying ==
  /\ state' = ResetState
  /\ isPlaying' = isPlaying
  /\ calls' = 0
  /\ lastCall' = resetCall
  /\ proxLambdas' = <<>>
  /\ aiAnalysis' = <<>>
  /\ requestStale' = (request # <<>>)
  /\ UNCHANGED <<isAnalyzing, request, uiVars>>

\* resetSimulation(), from the reset button.
Reset ==
  /\ state' = ResetState
  /\ isPlaying' = FALSE
  /\ calls' = 0
  /\ lastCall' = resetCall
  /\ proxLambdas' = <<>>
  /\ aiAnalysis' = <<>>
  /\ requestStale' = (request # <<>>)
  /\ UNCHANGED <<isAnalyzing, request, uiVars>>

\* onTogglePlay: the play/pause button, disabled once finished.
TogglePlay ==
  /\ state.phase # "FINISHED"
  /\ isPlaying' = ~isPlaying
  /\ UNCHANGED <<state, calls, lastCall, proxLambdas, aiVars, uiVars>>

Next == Advance \/ Reset \/ TogglePlay

Spec == Init /\ [][Next]_vars

\* ------------------------------------------------------------------------
\* The step engine on its own: each of its functions applied to bounded,
\* well-formed feature collections (EngineSpec)
\* ------------------------------------------------------------------------

\* A WeightData value (types.ts).
WeightData(id, theta, w, isActive, isClamped) ==
  [ id        |-> id,
    theta     |-> theta,
    w         |-> w,
    isActive  |-> isActive,
    isClamped |-> isClamped,
    prevTheta |-> theta,
    prevW     |-> w,
    gradTheta |-> 0,
    gradW     |-> [k \in Hidden |-> 0] ]

\* Hidden-weight vectors: all entries v, and a mixed vector of a, 0 and -a.
AllW(v) == [k \in Hidden |-> v]

MixedW(a) == [k \in Hidden |-> IF k = 1 THEN a ELSE IF k = 2 THEN 0 ELSE -a]

\* The features tried in position id: ordinary, nearly pruned, negative,
\* within the pruning threshold with tiny weights, pruned, and inactive with
\* nonzero weights.
FeatureInputs(id) ==
  { WeightData(id, Dec(1, 1),      AllW(Dec(5, 10)),      TRUE,  FALSE),
    WeightData(id, Dec(185, 1000), AllW(Dec(925, 10000)), TRUE,  FALSE),
    WeightData(id, Dec(85, 1000),  MixedW(Dec(3, 10)),    TRUE,  TRUE),
    WeightData(id, -Dec(3, 10),    MixedW(Dec(1, 1)),     TRUE,  FALSE),
    WeightData(id, Dec(5, 10000),  MixedW(Dec(3, 10000)), TRUE,  FALSE),
    WeightData(id, 0,              AllW(0),               FALSE, FALSE),
    WeightData(id, 0,              AllW(0),               FALSE, TRUE),
    WeightData(id, Dec(3, 10),     MixedW(Dec(2, 10)),    FALSE, TRUE) }

\* The collections tried: every combination of the features above, and the
\* collection initializeWeights() returns.
InputCollections ==
  { <<f1, f2, f3>> : f1 \in FeatureInputs(1), f2 \in FeatureInputs(2),
                     f3 \in FeatureInputs(3) }
    \cup {initializeWeights_part000}

\* The penalties tried: none, one lambda step, and the 1.0 and 5.0 of the
\* documented scenarios.
InputLambdas == {0, LAMBDA_STEP, Dec(1, 1), Dec(5, 1)}

\* Engine calls chained on one collection.
MaxEngineCalls == 2

EngineInit ==
  /\ \E fs \in InputCollections : state = [ResetState EXCEPT !.features = fs]
  /\ isPlaying = FALSE
  /\ calls = 0
  /\ lastCall = NoCall
  /\ proxLambdas = <<>>
  /\ aiAnalysis = <<>>
  /\ isAnalyzing = FALSE
  /\ request = <<>>
  /\ requestStale = FALSE
  /\ pending = 0
  /\ timer = FALSE
  /\ effectsPending = FALSE

\* The result of one engine call becomes the current collection.
Called(call) ==
  /\ calls < MaxEngineCalls
  /\ lastCall' = call
  /\ state' = [state EXCEPT !.features = call.output]
  /\ calls' = calls + 1
  /\ UNCHANGED <<isPlaying, proxLambdas, aiVars, uiVars>>

CallGradient ==
  Called([ fn     |-> "performGradientStep",
           input  |-> state.features,
           output |-> performGradientStep(state.features) ])

CallProximal ==
  \E lam \in InputLambdas :
    Called([ fn     |-> "performProximalStep",
             input  |-> state.features,
             lambda |-> lam,
             output |-> performProximalStep(state.features, lam) ])

CallGradient_part000 ==
  LET r == performGradientStep_part000(state.features)
  IN  Called([ fn      |-> "performGradientStep_part000",
               input   |-> state.features,
               output  |-> r.features,
               details |-> r.details ])

CallProximal_part000 ==
  \E lam \in InputLambdas :
    LET r == performProximalStep_part000(state.features, lam)
    IN  Called([ fn      |-> "performProximalStep_part000",
                 input   |-> state.features,
                 lambda  |-> lam,
                 output  |-> r.features,
                 details |-> r.details ])

EngineNext ==
  CallGradient \/ CallProximal \/ CallGradient_part000 \/ CallProximal_part000

EngineSpec == EngineInit /\ [][EngineNext]_vars

\* Runs driven by advance() alone, called again and again.
LiveSpec == Init /\ [][Advance]_vars /\ WF_vars(Advance)

\* ------------------------------------------------------------------------
\* geminiService.ts and handleAiAnalysis: the summarization request
\* (AnalysisSpec)
\* ------------------------------------------------------------------------

MISSING_KEY_TEXT ==
  "Gemini API Key is missing. Please configure process.env.API_KEY to enable AI analysis."

NO_ANALYSIS_TEXT == "No analysis generated."

UNABLE_TEXT == "Unable to fetch analysis from Gemini at this moment."

\* What ai.models.generateContent does: it returns a response with a text,
\* a response without one, or it throws.
Responses == {"text", "empty", "error"}

\* Faulty variant of analyzeLassoNetState: without the catch, the promise is
\* rejected (<<>>: no value).
analyzeLassoNetState_noCatch(snapshot, hasKey, response) ==
  IF ~hasKey THEN <<MISSING_KEY_TEXT>>
  ELSE IF response = "error" THEN <<>>
  ELSE IF response = "empty" THEN <<NO_ANALYSIS_TEXT>>
  ELSE <<"response.text">>

\* The value the promise of analyzeLassoNetState(snapshot) resolves to, as
\* <<string>>.  The prompt is built from the snapshot, which is only read.
analyzeLassoNetState(snapshot, hasKey, response) ==
  IF ~hasKey THEN <<MISSING_KEY_TEXT>>
  ELSE IF response = "error" THEN <<UNABLE_TEXT>>
  ELSE IF response = "empty" THEN <<NO_ANALYSIS_TEXT>>
  ELSE <<"response.text">>

\* handleAiAnalysis up to its await: the Analyze button, disabled while
\* isAnalyzing; the call is given the state of the current render.
ClickAnalyze ==
  /\ ~isAnalyzing
  /\ isAnalyzing' = TRUE
  /\ request' = <<state>>
  /\ requestStale' = FALSE
  /\ lastCall' = [fn |-> "handleAiAnalysis"]
  /\ UNCHANGED <<state, isPlaying, calls, proxLambdas, aiAnalysis, uiVars>>

\* handleAiAnalysis after its await: the promise settles; a resolved value is
\* stored by setAiAnalysis and isAnalyzing is cleared, a rejection would skip
\* both.
ResolveAnalysis ==
  /\ request # <<>>
  /\ \E hasKey \in BOOLEAN, response \in Responses :
       LET result == analyzeLassoNetState(request[1], hasKey, response)
       IN  /\ lastCall' = [ fn       |-> "analyzeLassoNetState",
                            input    |-> request[1],
                            hasKey   |-> hasKey,
                            response |-> response,
                            stale    |-> requestStale,
                            output   |-> result ]
           /\ aiAnalysis' = IF result = <<>> THEN aiAnalysis ELSE result
           /\ isAnalyzing' = IF result = <<>> THEN isAnalyzing ELSE FALSE
  /\ request' = <<>>
  /\ requestStale' = FALSE
  /\ UNCHANGED <<state, isPlaying, calls, proxLambdas, uiVars>>

\* Advance calls explored after a reset while requests are in flight.
MaxAnalysisCalls == 14

AdvanceDuringAnalysis == calls < MaxAnalysisCalls /\ Advance

AnalysisNext == AdvanceDuringAnalysis \/ Reset \/ ClickAnalyze \/ ResolveAnalysis

AnalysisSpec == Init /\ [][AnalysisNext]_vars

\* ------------------------------------------------------------------------
\* App.tsx and Controls.tsx: the UI driver (UISpec).  The interval callback,
\* the render that applies the queued updaters, and the run of the interval
\* effect after the commit are separate tasks of the event loop; a click is
\* handled, rendered and its effects run in one task.
\* ------------------------------------------------------------------------

\* Updaters an interval can queue before a render applies them.
MaxPending == 2

\* The interval effect: whether it sets an interval.
intervalEffect(playing, phase) == playing /\ phase # "FINISHED"

\* The queued advanceSimulation updaters applied in order by one render: the
\* resulting state, whether one of them called setIsPlaying(false), the last
\* engine call and the lambdas of the PATH_LOOP proximal steps.
RECURSIVE applyQueued(_, _)
applyQueued(r, n) ==
  IF n = 0 THEN r
  ELSE applyQueued(
         [ state   |-> advanceSimulation(r.state),
           stopped |-> r.stopped \/ stopsPlaying(r.state),
           last    |-> engineCall(r.state),
           lambdas |-> IF r.state.phase = "PATH_LOOP" /\ r.state.step = "PROXIMAL"
                       THEN Append(r.lambdas, r.state.lambda)
                       ELSE r.lambdas ],
         n - 1)

\* A render that applies n queued updaters and an isPlaying update, and its
\* commit; sync: the interval effect runs in the same task.
Commit(n, wantPlaying, sync) ==
  LET r == applyQueued([ state |-> state, stopped |-> FALSE,
                         last |-> lastCall, lambdas |-> <<>> ], n)
      playing == IF r.stopped THEN FALSE ELSE wantPlaying
  IN  /\ state' = r.state
      /\ isPlaying' = playing
      /\ calls' = calls + n
      /\ lastCall' = r.last
      /\ proxLambdas' = proxLambdas \o r.lambdas
      /\ pending' = 0
      /\ IF sync
         THEN /\ timer' = intervalEffect(playing, r.state.phase)
              /\ effectsPending' = FALSE
         ELSE /\ timer' = timer
              /\ effectsPending' = (\/ effectsPending
                                    \/ playing # isPlaying
                                    \/ r.state.phase # state.phase)
      /\ UNCHANGED aiVars

\* The interval fires: advanceSimulation queues its updater.
Tick ==
  /\ timer
  /\ pending < MaxPending
  /\ calls + pending < MaxCalls
  /\ pending' = pending + 1
  /\ UNCHANGED <<state, isPlaying, calls, lastCall, proxLambdas, aiVars,
                 timer, effectsPending>>

\* React renders: the queued updaters run.
Render ==
  /\ pending > 0
  /\ Commit(pending, isPlaying, FALSE)

\* The interval effect runs after a commit that changed isPlaying or
\* state.phase: clearInterval, then setInterval if playing and not finished.
FlushEffects ==
  /\ effectsPending
  /\ timer' = intervalEffect(isPlaying, state.phase)
  /\ effectsPending' = FALSE
  /\ UNCHANGED <<state, isPlaying, calls, lastCall, proxLambdas, aiVars, pending>>

\* The step button (disabled={isPlaying || isFinished}): onStep.
ClickStep ==
  /\ ~isPlaying
  /\ state.phase # "FINISHED"
  /\ calls + pending < MaxCalls
  /\ Commit(pending + 1, isPlaying, TRUE)

\* The play/pause button (disabled={isFinished}): setIsPlaying(!isPlaying).
ClickPlay ==
  /\ state.phase # "FINISHED"
  /\ Commit(pending, ~isPlaying, TRUE)

\* The reset button: resetSimulation.
ClickReset ==
  /\ Reset
  /\ pending' = 0
  /\ timer' = FALSE
  /\ effectsPending' = FALSE

UINext == Tick \/ Render \/ FlushEffects \/ ClickStep \/ ClickPlay \/ ClickReset

UISpec == Init /\ [][UINext]_vars

\* ------------------------------------------------------------------------
\* Properties
\* ------------------------------------------------------------------------

\* SimulationPhase (types.ts), in the order of the schedule.
PhaseRank(p) ==
  CASE p = "INIT" -> 0
    [] p = "PRETRAIN" -> 1
    [] p = "PATH_LOOP" -> 2
    [] p = "FINISHED" -> 3

\* The number of lambda values of the path: LAMBDA_STEP, ..., MAX_LAMBDA.
LambdaValues == MAX_LAMBDA \div LAMBDA_STEP

\* advance() calls from reset to FINISHED: the INIT call, then a gradient and
\* a proximal call per pretraining epoch and per epoch of every lambda value.
CallsToFinish == 1 + 2 * PRETRAIN_EPOCHS + 2 * EPOCHS_PER_LAMBDA * LambdaValues

IsGradient(call) ==
  call.fn \in {"performGradientStep", "performGradientStep_part000"}

IsProximal(call) ==
  call.fn \in {"performProximalStep", "performProximalStep_part000"}

Features == DOMAIN state.features

\* C1: FINISHED is terminal: an advance() call in a state with phase=FINISHED
\* leaves phase, step, lambda, epoch, the feature collection and the log
\* unchanged.
C1_FinishedIsTerminal ==
  [][ (Advance /\ state.phase = "FINISHED") =>
        /\ state'.phase = state.phase
        /\ state'.step = state.step
        /\ state'.lambda = state.lambda
        /\ state'.epoch = state.epoch
        /\ state'.features = state.features
        /\ state'.logs = state.logs ]_vars

\* C2: Termination: from the reset state, repeated advance() calls reach
\* phase=FINISHED, and they reach it at call number CallsToFinish (111), not
\* before and not later.
C2_Termination ==
  /\ <>(state.phase = "FINISHED")
  /\ [](state.phase = "FINISHED" <=> calls >= CallsToFinish)

C2_Witness == state.phase = "FINISHED" /\ calls = CallsToFinish

\* C3: Epoch/lambda progression: after exactly 1 + 2*5 = 11 advance() calls
\* from reset the state has phase=PATH_LOOP, lambda=LAMBDA_STEP and epoch=0,
\* and after each of the 10 calls before it the phase is PRETRAIN.
C3_Progression ==
  /\ calls \in 1 .. 2 * PRETRAIN_EPOCHS => state.phase = "PRETRAIN"
  /\ calls = 1 + 2 * PRETRAIN_EPOCHS =>
       /\ state.phase = "PATH_LOOP"
       /\ state.lambda = LAMBDA_STEP
       /\ state.epoch = 0

C3_Witness ==
  /\ calls = 1 + 2 * PRETRAIN_EPOCHS
  /\ state.phase = "PATH_LOOP"
  /\ lastCall.fn = "performProximalStep"

\* C4: Pruning monotonicity: in a run driven by advance() from reset, a
\* feature whose isActive is false is still inactive after the next advance()
\* call, whichever step it runs.
C4_PruningMonotone ==
  [][ Advance =>
        \A n \in Features :
          ~state.features[n].isActive => ~state'.features[n].isActive ]_vars

C4_Witness ==
  /\ lastCall.fn = "performProximalStep"
  /\ \E n \in Features :
       ~lastCall.input[n].isActive /\ ~state.features[n].isActive
  /\ \E n \in Features : state.features[n].isActive

\* C5: Hierarchy invariant: in the result of performProximalStep, for every
\* feature (active or not) and every lambda >= 0, every hidden weight
\* satisfies |w_k| <= M * |theta| with theta the post-threshold value.
C5_Hierarchy ==
  IsProximal(lastCall) =>
    \A n \in DOMAIN lastCall.output : \A k \in Hidden :
      Abs(lastCall.output[n].w[k])
        <= Mul(M_CONSTANT, Abs(lastCall.output[n].theta))

C5_Witness ==
  /\ IsProximal(lastCall)
  /\ \E n \in DOMAIN lastCall.output :
       /\ lastCall.output[n].isActive
       /\ lastCall.output[n].isClamped
       /\ \E k \in Hidden : lastCall.output[n].w[k] # lastCall.input[n].w[k]
  /\ \E n \in DOMAIN lastCall.output : ~lastCall.output[n].isActive

\* C6: Pruned-feature zeroing: when performProximalStep leaves a feature with
\* theta exactly 0, every hidden weight of that feature is exactly 0 in the
\* same result, and isClamped is true iff some input weight was nonzero.
C6_PrunedZero ==
  IsProximal(lastCall) =>
    \A n \in DOMAIN lastCall.output :
      lastCall.output[n].theta = 0 =>
        /\ \A k \in Hidden : lastCall.output[n].w[k] = 0
        /\ lastCall.output[n].isClamped
             <=> (\E k \in Hidden : lastCall.input[n].w[k] # 0)

C6_Witness ==
  /\ IsProximal(lastCall)
  /\ \E n \in DOMAIN lastCall.output :
       /\ lastCall.input[n].theta # 0
       /\ lastCall.output[n].theta = 0
       /\ \E k \in Hidden : lastCall.input[n].w[k] # 0
       /\ lastCall.output[n].isClamped

\* C7: performGradientStep returns every feature with isActive=false
\* unmodified, in every field.
C7_InactiveUnmodified ==
  IsGradient(lastCall) =>
    \A n \in DOMAIN lastCall.input :
      ~lastCall.input[n].isActive => lastCall.output[n] = lastCall.input[n]

C7_Witness ==
  /\ IsGradient(lastCall)
  /\ \E n \in DOMAIN lastCall.input :
       /\ ~lastCall.input[n].isActive
       /\ lastCall.input[n].isClamped
       /\ lastCall.input[n].theta # 0
  /\ \E n \in DOMAIN lastCall.input :
       /\ lastCall.input[n].isActive
       /\ lastCall.output[n] # lastCall.input[n]

\* C8 as stated: after any gradient step of a run from reset, every feature
\* of the collection, active or inactive, has isClamped=false.
C8_NeverClampedAfterGradient ==
  lastCall.fn = "performGradientStep" =>
    \A n \in Features : ~state.features[n].isClamped

\* C8, amended: in every state of a run from reset, a feature with
\* isClamped=true is either in the direct result of a proximal step, or is an
\* inactive feature that the gradient step just run returned unmodified;
\* after a gradient step every active feature has isClamped=false.
C8_ClampedOnlyAfterProximalOrInactive ==
  \A n \in Features :
    state.features[n].isClamped =>
      \/ lastCall.fn = "performProximalStep"
      \/ /\ lastCall.fn = "performGradientStep"
         /\ ~state.features[n].isActive
         /\ state.features[n] = lastCall.input[n]

C8_Witness ==
  /\ lastCall.fn = "performGradientStep"
  /\ \E n \in Features :
       state.features[n].isClamped /\ ~state.features[n].isActive
  /\ \E n \in Features :
       /\ lastCall.input[n].isActive
       /\ ~state.features[n].isClamped

\* C9: the phase only moves forward along INIT -> PRETRAIN -> PATH_LOOP ->
\* FINISHED: an advance() call keeps the phase or moves it to the next one,
\* and the one step that moves it back is reset, which returns to INIT.
C9_PhaseForward ==
  [][ /\ Advance =>
           PhaseRank(state'.phase) \in
             {PhaseRank(state.phase), PhaseRank(state.phase) + 1}
      /\ PhaseRank(state'.phase) < PhaseRank(state.phase) =>
           Reset /\ state'.phase = "INIT" ]_vars

C9_Witness ==
  /\ state.phase = "FINISHED"
  /\ calls > CallsToFinish
  /\ lastCall.fn = "performProximalStep"

\* The lambda of the i-th proximal step of the path: each value for
\* EPOCHS_PER_LAMBDA steps, rising by LAMBDA_STEP.
AnnealSchedule(i) == LAMBDA_STEP * ((i - 1) \div EPOCHS_PER_LAMBDA + 1)

\* C10: Lambda annealing in PATH_LOOP: lambda changes only on the advance()
\* call whose proximal step brings epoch to EPOCHS_PER_LAMBDA; that call
\* resets epoch to 0 and raises lambda by LAMBDA_STEP, and the phase becomes
\* FINISHED iff the new lambda is greater than MAX_LAMBDA, else it stays
\* PATH_LOOP.  So the proximal steps of the path use 0.2, 0.4, ..., 2.0 in
\* this order, each for exactly 5 steps.
C10_LambdaAnnealing ==
  /\ [](\A i \in DOMAIN proxLambdas : proxLambdas[i] = AnnealSchedule(i))
  /\ [](state.phase = "FINISHED" =>
          /\ Len(proxLambdas) = EPOCHS_PER_LAMBDA * LambdaValues
          /\ proxLambdas[Len(proxLambdas)] = MAX_LAMBDA)
  /\ [][ (Advance /\ state.phase = "PATH_LOOP") =>
           IF state.step = "PROXIMAL" /\ state.epoch + 1 = EPOCHS_PER_LAMBDA
           THEN /\ state'.epoch = 0
                /\ state'.lambda = state.lambda + LAMBDA_STEP
                /\ state'.phase = IF state'.lambda > MAX_LAMBDA
                                  THEN "FINISHED" ELSE "PATH_LOOP"
           ELSE /\ state'.lambda = state.lambda
                /\ state'.phase = "PATH_LOOP" ]_vars

C10_Witness ==
  /\ state.phase = "FINISHED"
  /\ state.lambda = MAX_LAMBDA + LAMBDA_STEP
  /\ Len(proxLambdas) = EPOCHS_PER_LAMBDA * LambdaValues
  /\ proxLambdas[Len(proxLambdas)] = MAX_LAMBDA

\* C11: while the phase is PRETRAIN or PATH_LOOP, an advance() call makes
\* exactly one step-engine call: the gradient step if step=GRADIENT, which
\* flips step to PROXIMAL and leaves epoch, lambda and phase unchanged;
\* otherwise the proximal step, which flips step to GRADIENT and counts one
\* epoch (the counter is then 0 when that epoch exhausted the budget).
C11_StepAlternation ==
  [][ (Advance /\ state.phase \in {"PRETRAIN", "PATH_LOOP"}) =>
        IF state.step = "GRADIENT"
        THEN /\ state'.features = performGradientStep(state.features)
             /\ state'.step = "PROXIMAL"
             /\ state'.epoch = state.epoch
             /\ state'.lambda = state.lambda
             /\ state'.phase = state.phase
        ELSE /\ state'.features = performProximalStep(state.features, state.lambda)
             /\ state'.step = "GRADIENT"
             /\ \/ state'.epoch = state.epoch + 1
                \/ /\ state'.epoch = 0
                   /\ state.epoch + 1 =
                        (IF state.phase = "PRETRAIN"
                         THEN PRETRAIN_EPOCHS ELSE EPOCHS_PER_LAMBDA) ]_vars

C11_Witness ==
  /\ state.phase = "PATH_LOOP"
  /\ state.step = "GRADIENT"
  /\ state.epoch = 3
  /\ lastCall.fn = "performProximalStep"
  /\ lastCall.output = state.features
  /\ lastCall.output # lastCall.input

\* C12: the first advance() call from INIT does no numeric work: it sets
\* phase=PRETRAIN and appends one log entry, and leaves the features, step
\* (GRADIENT), epoch (0) and lambda (0) unchanged.
C12_InitToPretrain ==
  [][ (Advance /\ state.phase = "INIT") =>
        /\ state'.phase = "PRETRAIN"
        /\ Len(state'.logs) = Len(state.logs) + 1
        /\ SubSeq(state'.logs, 1, Len(state.logs)) = state.logs
        /\ state'.features = state.features
        /\ state'.step = "GRADIENT" /\ state.step = "GRADIENT"
        /\ state'.epoch = 0 /\ state.epoch = 0
        /\ state'.lambda = 0 /\ state.lambda = 0 ]_vars

C12_Witness ==
  /\ calls = 1
  /\ state.phase = "PRETRAIN"
  /\ Len(state.logs) = 2
  /\ state.features = ResetState.features
  /\ state.step = "GRADIENT"

\* C13: every proximal step of a run is given the scheduler's lambda as it
\* was before the advance() call, not the value the call's schedule increment
\* sets, and that lambda is 0 for every proximal step while phase=PRETRAIN.
C13_ProximalLambda ==
  [][ (Advance /\ state.phase # "INIT" /\ state.step = "PROXIMAL") =>
        /\ state'.features = performProximalStep(state.features, state.lambda)
        /\ state'.lambda # state.lambda =>
             state'.features # performProximalStep(state.features, state'.lambda)
        /\ state.phase = "PRETRAIN" => state.lambda = 0 ]_vars

C13_Witness ==
  /\ calls = 1 + 2 * PRETRAIN_EPOCHS
  /\ lastCall.fn = "performProximalStep"
  /\ lastCall.lambda = 0
  /\ state.lambda = LAMBDA_STEP
  /\ state.features = lastCall.output

\* C14: reset, from any reachable state (any phase, FINISHED included, either
\* step flag, playing or paused), always produces the same state: phase=INIT,
\* step=GRADIENT, lambda=0, epoch=0, the features of initializeWeights() (ids
\* 1..3, theta 1.0, 0.6, 0.2, every w_k = theta * 0.5, all active, none
\* clamped), a log holding only the initialization entry, and the periodic
\* driver stopped.
C14_ResetState ==
  [][ Reset =>
        /\ state'.phase = "INIT"
        /\ state'.step = "GRADIENT"
        /\ state'.lambda = 0
        /\ state'.epoch = 0
        /\ Len(state'.features) = 3
        /\ \A n \in 1 .. 3 :
             /\ state'.features[n].id = n
             /\ state'.features[n].theta = Dec(10 - 4 * (n - 1), 10)
             /\ \A k \in Hidden :
                  state'.features[n].w[k] = Mul(state'.features[n].theta, Dec(5, 10))
             /\ state'.features[n].isActive
             /\ ~state'.features[n].isClamped
             /\ state'.features[n].theta = initializeWeights_part000[n].theta
             /\ state'.features[n].w = initializeWeights_part000[n].w
        /\ state'.logs = <<LogLine("Initialized 3 features with random weights.", 0)>>
        /\ ~isPlaying' ]_vars

C14_Witness ==
  /\ lastCall.fn = "resetSimulation"
  /\ lastCall.phase = "FINISHED"
  /\ state.phase = "INIT"
  /\ calls = 0

\* C15: shape invariant: in every state reachable from reset by advance()
\* calls the collection has exactly NUM_FEATURES elements, the ids are
\* 1..NUM_FEATURES in the same positions, and every w has exactly
\* HIDDEN_SIZE entries.
C15_Shape ==
  /\ DOMAIN state.features = 1 .. NUM_FEATURES
  /\ \A n \in 1 .. NUM_FEATURES :
       /\ state.features[n].id = n
       /\ DOMAIN state.features[n].w = 1 .. HIDDEN_SIZE

C15_Witness ==
  /\ state.phase = "FINISHED"
  /\ ActiveCount(state.features) = 1
  /\ Len(state.features) = NUM_FEATURES
  /\ state.features[NUM_FEATURES].id = NUM_FEATURES
  /\ ~state.features[NUM_FEATURES].isActive

\* The per-feature targets of the gradient step as documented: 1.8 for id 1,
\* 0.6 for id 2, 0.05 otherwise.
DocumentedTarget(id) ==
  IF id = 1 THEN Dec(18, 10) ELSE IF id = 2 THEN Dec(6, 10) ELSE Dec(5, 100)

\* A gradient call that moves every active feature toward the documented
\* targets, and takes the initial thetas 1.0, 0.6, 0.2 to 1.08, 0.6, 0.185.
GradientAsDocumented(call) ==
  /\ \A n \in DOMAIN call.input :
       call.input[n].isActive =>
         LET T == DocumentedTarget(call.input[n].id)
         IN  /\ call.output[n].theta =
                  call.input[n].theta
                    - Mul(LEARNING_RATE, call.input[n].theta - T)
             /\ \A k \in Hidden :
                  call.output[n].w[k] =
                    call.input[n].w[k]
                      - Mul(LEARNING_RATE, call.input[n].w[k] - Mul(T, Dec(5, 10)))
  /\ call.input = initializeWeights_part000 =>
       /\ call.output[1].theta = Dec(108, 100)
       /\ call.output[2].theta = Dec(6, 10)
       /\ call.output[3].theta = Dec(185, 1000)

\* C16: gradient step arithmetic: performGradientStep sets, for every active
\* feature, theta' = theta - LR * (theta - T) and w_k' = w_k - LR * (w_k -
\* T * 0.5) with LR = 0.1 and T = 1.8 for id 1, 0.6 for id 2, 0.05 otherwise;
\* applied to the initial state it gives theta 1.08, 0.6 and 0.185.
C16_GradientArithmetic ==
  IsGradient(lastCall) => GradientAsDocumented(lastCall)

\* The same statement for the copy of performGradientStep in part_000 alone.
C16_GradientArithmetic_part000 ==
  lastCall.fn = "performGradientStep_part000" => GradientAsDocumented(lastCall)

\* What the copy in services/simulationLogic.ts returns for the initial
\* state: 1.1, 0.62, 0.16.
C16_ServicesInitialStep ==
  /\ lastCall.fn = "performGradientStep"
  /\ lastCall.input = initializeWeights_part000
  /\ lastCall.output[1].theta = Dec(11, 10)
  /\ lastCall.output[2].theta = Dec(62, 100)
  /\ lastCall.output[3].theta = Dec(16, 100)

\* The soft-threshold operator as documented.
DocumentedSoftThreshold(x, tau) ==
  IF x > tau THEN x - tau ELSE IF x < -tau THEN x + tau ELSE 0

\* A proximal call that thresholds every theta by tau = lambda * LR and prunes
\* exactly the features with |theta'| <= 1e-4; with lambda = 1.0 it takes
\* theta 0.185 to 0.085 (active), with lambda = 5.0 it takes theta 0.085 to 0
\* (inactive, every hidden weight 0).
ProximalAsDocumented(call) ==
  \A n \in DOMAIN call.input :
    LET tau == Mul(call.lambda, LEARNING_RATE)
        th  == DocumentedSoftThreshold(call.input[n].theta, tau)
    IN  /\ IF Abs(th) <= Dec(1, 10000)
           THEN call.output[n].theta = 0 /\ ~call.output[n].isActive
           ELSE call.output[n].theta = th /\ call.output[n].isActive
        /\ (call.lambda = Dec(1, 1) /\ call.input[n].theta = Dec(185, 1000)) =>
             call.output[n].theta = Dec(85, 1000) /\ call.output[n].isActive
        /\ (call.lambda = Dec(5, 1) /\ call.input[n].theta = Dec(85, 1000)) =>
             /\ call.output[n].theta = 0
             /\ ~call.output[n].isActive
             /\ \A k \in Hidden : call.output[n].w[k] = 0

\* C17: proximal thresholding: performProximalStep computes tau = lambda * LR,
\* applies the soft threshold, and then, if |theta'| <= 1e-4, forces theta' =
\* 0 and isActive = false, otherwise sets isActive = true; lambda = 1.0 on
\* theta = 0.185 gives 0.085, still active; lambda = 5.0 on theta = 0.085
\* gives 0, inactive, with all hidden weights 0.
C17_ProximalThreshold ==
  IsProximal(lastCall) => ProximalAsDocumented(lastCall)

\* The same statement for the copy of performProximalStep in part_000 alone.
C17_ProximalThreshold_part000 ==
  lastCall.fn = "performProximalStep_part000" => ProximalAsDocumented(lastCall)

\* What the copy in services/simulationLogic.ts does with a thresholded theta
\* between 1e-4 and 1e-3: it prunes the feature.
C17_ServicesPrunesBelowMilli ==
  /\ lastCall.fn = "performProximalStep"
  /\ lastCall.lambda = 0
  /\ \E n \in DOMAIN lastCall.input :
       /\ lastCall.input[n].theta = Dec(5, 10000)
       /\ lastCall.output[n].theta = 0
       /\ ~lastCall.output[n].isActive

\* The gradient detail describes feature n of the call: its id, its theta
\* before and after, and its gradient.
DetailDescribes(call, n) ==
  /\ ~call.details.bare
  /\ call.details.featureId = call.input[n].id
  /\ call.details.oldVal = call.input[n].theta
  /\ call.details.newVal = call.output[n].theta
  /\ call.details.grad = call.input[n].theta - targetTheta_part000(call.input[n].id)

\* C20: the representative feature of the gradient detail: the detail
\* describes feature 1 when feature 1 was updated; when feature 1 is inactive
\* and feature 2 is active it describes feature 2 (featureId = 2 with that
\* feature's oldVal, grad and newVal); it is the bare featureId = 1 record
\* only when neither feature 1 nor feature 2 was updated.
C20_RepresentativeFeature ==
  lastCall.fn = "performGradientStep_part000" =>
    IF lastCall.input[1].isActive THEN DetailDescribes(lastCall, 1)
    ELSE IF lastCall.input[2].isActive THEN DetailDescribes(lastCall, 2)
    ELSE lastCall.details.bare /\ lastCall.details.featureId = 1

\* What the code does when feature 1 is inactive and feature 2 is active:
\* feature 2 is updated, and the detail is the bare featureId = 1 record.
C20_BareDetailWithFeature2Updated ==
  /\ lastCall.fn = "performGradientStep_part000"
  /\ ~lastCall.input[1].isActive
  /\ lastCall.input[2].isActive
  /\ lastCall.output[2].theta # lastCall.input[2].theta
  /\ lastCall.details.bare
  /\ lastCall.details.featureId = 1

\* The detail never describes feature 2.
C20_DetailNeverFeature2 ==
  lastCall.fn = "performGradientStep_part000" => lastCall.details.featureId = 1

\* C18: summarization isolation: a summarization request, whether it
\* succeeds, finds no credentials or fails on the network, resolves to a
\* string (a static placeholder on failure), and neither starting it nor
\* resolving it changes a simulation state field (phase, step, lambda, epoch,
\* features, log), in any interleaving with advance() and reset.
C18_SummarizationIsolation ==
  /\ [][ (request' # request \/ isAnalyzing' # isAnalyzing) =>
          state' = state /\ isPlaying' = isPlaying /\ calls' = calls ]_vars
  /\ [][ (request # <<>> /\ request' = <<>>) =>
          /\ lastCall'.fn = "analyzeLassoNetState"
          /\ Len(lastCall'.output) = 1
          /\ aiAnalysis' = lastCall'.output
          /\ ~isAnalyzing'
          /\ ~lastCall'.hasKey => aiAnalysis' = <<MISSING_KEY_TEXT>>
          /\ (lastCall'.hasKey /\ lastCall'.response = "error") =>
               aiAnalysis' = <<UNABLE_TEXT>>
          /\ (lastCall'.hasKey /\ lastCall'.response = "empty") =>
               aiAnalysis' = <<NO_ANALYSIS_TEXT>> ]_vars

C18_Witness ==
  /\ lastCall.fn = "analyzeLassoNetState"
  /\ lastCall.hasKey
  /\ lastCall.response = "error"
  /\ aiAnalysis = <<UNABLE_TEXT>>
  /\ lastCall.input.phase = "PRETRAIN"
  /\ state.phase = "PATH_LOOP"
  /\ state # lastCall.input

\* C19: driver halting: under the UI driver (interval while playing, step
\* button while paused), once the phase is FINISHED the playing flag is
\* cleared, the interval is stopped once the interval effect has run, and in
\* no interleaving of ticks, clicks and renders is advance() applied to a
\* FINISHED state: the call that reaches FINISHED, call number CallsToFinish
\* since reset, is the last one.
C19_DriverHalting ==
  /\ state.phase = "FINISHED" => ~isPlaying /\ (~effectsPending => ~timer)
  /\ calls <= CallsToFinish

\* The parts of C19 that hold: in FINISHED the playing flag is clear, both
\* buttons are disabled, and once the interval effect has run no interval is
\* armed.
C19_HaltedOnceEffectsRan ==
  state.phase = "FINISHED" =>
    /\ ~isPlaying
    /\ ~effectsPending => ~timer
    /\ ~ENABLED ClickStep
    /\ ~ENABLED ClickPlay

\* An advance() applied to a FINISHED state by the interval.
C19_TickAfterFinished ==
  /\ calls = CallsToFinish + 1
  /\ state.phase = "FINISHED"
  /\ state.step = "PROXIMAL"
  /\ lastCall.fn = "performGradientStep"
  /\ lastCall.input # lastCall.output

\* The proximal steps of the path run so far with the lambda lam.
StepsWithLambda(lam) ==
  Cardinality({i \in DOMAIN proxLambdas : proxLambdas[i] = lam})

\* C21: epoch meaning and bound: in every state between advance() calls with
\* phase PRETRAIN or PATH_LOOP, epoch is the number of proximal steps
\* completed since lambda last changed (since pretraining began, in
\* PRETRAIN), and 0 <= epoch < 5: the budget itself is never observable.
C21_EpochBound ==
  /\ state.phase \in {"PRETRAIN", "PATH_LOOP"} =>
       /\ 0 <= state.epoch
       /\ state.epoch < EPOCHS_PER_LAMBDA
       /\ state.epoch < PRETRAIN_EPOCHS
  /\ state.phase = "PRETRAIN" => state.epoch = (calls - 1) \div 2
  /\ state.phase = "PATH_LOOP" => state.epoch = StepsWithLambda(state.lambda)

C21_Witness ==
  /\ state.phase = "PATH_LOOP"
  /\ state.lambda = MAX_LAMBDA
  /\ state.epoch = EPOCHS_PER_LAMBDA - 1
  /\ StepsWithLambda(state.lambda) = EPOCHS_PER_LAMBDA - 1
  /\ lastCall.fn = "performProximalStep"

\* old is a prefix of new.
IsPrefix(old, new) ==
  /\ Len(old) <= Len(new)
  /\ SubSeq(new, 1, Len(old)) = old

IsPruningEntry(line) == line[1] = "Feature pruned at"

\* C22: the log is append-only: every advance() call leaves the previous log
\* as a prefix of the new log, and appends at most a pruning entry followed by
\* at most one phase/lambda entry; only reset replaces the log.
C22_LogAppendOnly ==
  /\ [][ Advance =>
          LET old == state.logs
              new == state'.logs
              added == Len(new) - Len(old)
          IN  /\ IsPrefix(old, new)
              /\ added <= 2
              /\ added = 2 =>
                   /\ IsPruningEntry(new[Len(old) + 1])
                   /\ ~IsPruningEntry(new[Len(old) + 2]) ]_vars
  /\ [][ ~IsPrefix(state.logs, state'.logs) => Reset ]_vars

C22_Witness ==
  /\ lastCall.fn = "performProximalStep"
  /\ Len(state.logs) = 10
  /\ IsPruningEntry(state.logs[10])
  /\ IsPruningEntry(state.logs[4])
  /\ ~IsPruningEntry(state.logs[9])
  /\ state.logs[1] = ResetState.logs[1]

\* C23: in every state reachable from reset by advance() calls, a feature
\* with isActive=false has theta exactly 0 and every hidden weight exactly 0,
\* after either kind of step.
C23_InactiveIsZero ==
  \A n \in Features :
    ~state.features[n].isActive =>
      /\ state.features[n].theta = 0
      /\ \A k \in Hidden : state.features[n].w[k] = 0

C23_Witness ==
  /\ lastCall.fn = "performGradientStep"
  /\ \E n \in Features :
       /\ ~state.features[n].isActive
       /\ state.features[n].theta = 0
       /\ \A k \in Hidden : state.features[n].w[k] = 0
  /\ \E n \in Features :
       /\ state.features[n].isActive
       /\ state.features[n].theta # lastCall.input[n].theta

\* C24: in the run driven from reset the hierarchy bound |w_k| <= M * |theta|
\* holds for every feature in every reachable state, not only right after a
\* proximal step: the initial state satisfies it and no gradient step of the
\* schedule pushes a hidden weight above M times its feature's theta.
C24_HierarchyEverywhere ==
  \A n \in Features : \A k \in Hidden :
    Abs(state.features[n].w[k]) <= Mul(M_CONSTANT, Abs(state.features[n].theta))

C24_Witness ==
  /\ lastCall.fn = "performGradientStep"
  /\ \E n \in Features :
       /\ lastCall.input[n].isActive
       /\ lastCall.input[n].isClamped
       /\ \E k \in Hidden :
            /\ Abs(lastCall.input[n].w[k])
                 = Mul(M_CONSTANT, Abs(lastCall.input[n].theta))
            /\ state.features[n].w[k] # lastCall.input[n].w[k]

\* C25: after a reset the displayed analysis text stays empty (null) until
\* an analysis requested after that reset completes: a summarization request
\* that was in flight when reset was called does not write its result into
\* the display.
C25_NoStaleAnalysis ==
  (lastCall.fn = "analyzeLassoNetState" /\ lastCall.stale) => aiAnalysis = <<>>

\* What the code does: the request started before the reset resolves after
\* it and its text, computed from the state before the reset, is displayed
\* over the reset state.
C25_StaleTextAfterReset ==
  /\ lastCall.fn = "analyzeLassoNetState"
  /\ lastCall.stale
  /\ lastCall.input.phase = "PATH_LOOP"
  /\ state = ResetState
  /\ aiAnalysis = <<"response.text">>

====
